---- MODULE Spec2Model ----
(***************************************************************************)
(* Model of package tracerr (src/error.go): errors that carry a stack      *)
(* trace.  The state is the heap of errorData values the package has       *)
(* allocated, the heap of []Frame backing arrays, and the record of the    *)
(* last call a client made.  Every exported function is one action.        *)
(*                                                                         *)
(* Strings are sequences of one-character strings, so that fmt's verb      *)
(* processing and the builder of errorData.Error are computed, not assumed.*)
(***************************************************************************)
EXTENDS Integers, Sequences, FiniteSets, TLC

VARIABLES errs, arrays, born, last

vars == <<errs, arrays, born, last>>

\* Number of errorData values a behaviour allocates.
MaxErrs == 2

(***************************************************************************)
(* Text                                                                    *)
(***************************************************************************)
Digits == <<"0", "1", "2", "3", "4", "5", "6", "7", "8", "9">>

\* fmt's %d of a non-negative int: its decimal digits.
RECURSIVE Itoa(_)
Itoa(n) == IF n < 10 THEN <<Digits[n + 1]>> ELSE Itoa(n \div 10) \o <<Digits[(n % 10) + 1]>>

\* Arguments of a formatting call: a string or an int.
S(v) == [t |-> "string", v |-> v]
I(v) == [t |-> "int", v |-> v]

TypeName(arg) == IF arg.t = "string" THEN <<"s", "t", "r", "i", "n", "g">> ELSE <<"i", "n", "t">>

\* %v of an argument.
ValueText(arg) == IF arg.t = "string" THEN arg.v ELSE Itoa(arg.v)

\* fmt.(*pp).printArg for the verbs s, d and v; any other pairing is badVerb.
printArg(arg, verb) ==
    IF \/ verb = "v"
       \/ verb = "s" /\ arg.t = "string"
       \/ verb = "d" /\ arg.t = "int"
    THEN ValueText(arg)
    ELSE <<"%", "!", verb, "(">> \o TypeName(arg) \o <<"=">> \o ValueText(arg) \o <<")">>

\* The operands left over after the format is consumed: %!(EXTRA type=value, ...).
RECURSIVE ExtraList(_, _)
ExtraList(a, k) ==
    IF k > Len(a) THEN <<>>
    ELSE TypeName(a[k]) \o <<"=">> \o ValueText(a[k])
         \o (IF k < Len(a) THEN <<",", " ">> ELSE <<>>) \o ExtraList(a, k + 1)

Extra(a, argNum) ==
    IF argNum <= Len(a)
    THEN <<"%", "!", "(", "E", "X", "T", "R", "A", " ">> \o ExtraList(a, argNum) \o <<")">>
    ELSE <<>>

NoVerb == <<"%", "!", "(", "N", "O", "V", "E", "R", "B", ")">>
Missing(verb) == <<"%", "!", verb, "(", "M", "I", "S", "S", "I", "N", "G", ")">>

\* fmt.(*pp).doPrintf from position i of the format with operand argNum next.
\* Formats here hold no flag, width, precision or index characters.
RECURSIVE doPrintf(_, _, _, _)
doPrintf(format, a, i, argNum) ==
    IF i > Len(format) THEN Extra(a, argNum)
    ELSE IF format[i] # "%" THEN <<format[i]>> \o doPrintf(format, a, i + 1, argNum)
    ELSE IF i + 1 > Len(format) THEN NoVerb \o Extra(a, argNum)
    ELSE IF format[i + 1] = "%" THEN <<"%">> \o doPrintf(format, a, i + 2, argNum)
    ELSE IF argNum > Len(a) THEN Missing(format[i + 1]) \o doPrintf(format, a, i + 2, argNum)
    ELSE printArg(a[argNum], format[i + 1]) \o doPrintf(format, a, i + 2, argNum + 1)

\* fmt.Sprintf(format, a...)
Sprintf(format, a) == doPrintf(format, a, 1, 1)

(***************************************************************************)
(* Error values                                                            *)
(***************************************************************************)
\* The nil error.
NilErr == [kind |-> "nil"]

\* An error that has only Error() string: what fmt.Errorf returns, or a
\* client's own plain error.
Plain(text) == [kind |-> "plain", text |-> text]

\* A pointer to the errorData at address a of the heap.
Ref(a) == [kind |-> "data", addr |-> a]

\* fmt.Errorf(format, a...)
FmtErrorf(format, a) == Plain(Sprintf(format, a))

\* type Frame struct { Func string; Line int; Path string }
Frame(fn, line, path) == [Func |-> fn, Line |-> line, Path |-> path]

\* Frames of client code, and the call stacks (innermost first) a client
\* calls the package from.  The empty stack is a context in which
\* runtime.Caller resolves nothing above the package.
F1 == Frame(<<"f">>, 10, <<"/", "a">>)
F2 == Frame(<<"g">>, 20, <<"/", "a">>)
FX == Frame(<<"h">>, 7, <<"/", "z">>)
Stacks == {<<>>, <<F1, F2>>}

\* Frames of the package's own functions: the line is the call each makes.
LibPath == <<"e", "r", "r", "o", "r", ".", "g", "o">>
TraceFrame == Frame(<<"t", "r", "a", "c", "e">>, 144, LibPath)
ErrorfFrame == Frame(<<"E", "r", "r", "o", "r", "f">>, 45, LibPath)
NewFrame == Frame(<<"N", "e", "w">>, 50, LibPath)
NewfFrame == Frame(<<"N", "e", "w", "f">>, 54, LibPath)
WrapFrame == Frame(<<"W", "r", "a", "p">>, 66, LibPath)
WrapfFrame == Frame(<<"W", "r", "a", "p", "f">>, 70, LibPath)

\* The stack inside a function called from `stack`.
Push(frame, stack) == <<frame>> \o stack

\* A client's error type that has StackTrace() []Frame and Unwrap() error
\* besides Error() string, so that it satisfies interface Error.
Foreign == [kind |-> "foreign", text |-> <<"g">>, frames |-> <<F2>>, inner |-> Plain(<<"x">>)]

\* e, ok := err.(Error): the dynamic type has the three methods of the interface.
IsError(err) == err.kind \in {"data", "foreign"}

\* The elements of the slice an errorData holds; slice 0 is the nil slice.
FramesOf(d, as) == IF d.frames = 0 THEN <<>> ELSE as[d.frames]

\* The result of a call and the heaps it leaves.
Outcome(res, es, as) == [res |-> res, errs |-> es, arrays |-> as]

(***************************************************************************)
(* The package's functions                                                 *)
(***************************************************************************)
\* runtime.Caller(skip) in a function whose stack is `stack`.
Caller(stack, skip) ==
    IF skip < Len(stack) THEN [ok |-> TRUE, frame |-> stack[skip + 1]]
    ELSE [ok |-> FALSE, frame |-> Frame(<<>>, 0, <<>>)]

\* A capture that puts each resolved caller in front of the ones before it.
RECURSIVE traceLoopOutermostFirst(_, _, _)
traceLoopOutermostFirst(stack, skip, frames) ==
    LET c == Caller(stack, skip)
    IN IF ~c.ok THEN frames
       ELSE traceLoopOutermostFirst(stack, skip + 1, <<c.frame>> \o frames)

\* The for loop of trace: append a Frame per resolved caller, skip++.
RECURSIVE traceLoop(_, _, _)
traceLoop(stack, skip, frames) ==
    LET c == Caller(stack, skip)
    IN IF ~c.ok THEN frames
       ELSE traceLoop(stack, skip + 1, Append(frames, c.frame))

\* trace(err, message, skip), called from `stack`: a new errorData with a new
\* frames slice.  DefaultCap is the capacity the slice starts with; append
\* grows it, so the elements do not depend on it.
trace(err, message, skip, stack, es, as) ==
    LET frames == traceLoop(Push(TraceFrame, stack), skip, <<>>)
    IN Outcome(Ref(Len(es) + 1),
               Append(es, [err |-> err, message |-> message, frames |-> Len(as) + 1]),
               Append(as, frames))

\* CustomError(err, frames): the errorData holds the caller's slice itself.
CustomError(err, frames, es, as) ==
    Outcome(Ref(Len(es) + 1),
            Append(es, [err |-> err, message |-> <<>>, frames |-> frames]),
            as)

\* Errorf(message, args...)
Errorf(message, args, stack, es, as) ==
    trace(FmtErrorf(message, args), <<>>, 2, Push(ErrorfFrame, stack), es, as)

\* New(message): the message is passed to fmt.Errorf as its format.
New(message, stack, es, as) ==
    trace(FmtErrorf(message, <<>>), <<>>, 2, Push(NewFrame, stack), es, as)

\* Newf(format, a...)
Newf(format, a, stack, es, as) ==
    trace(FmtErrorf(format, a), <<>>, 2, Push(NewfFrame, stack), es, as)

\* A Wrap that does not look for a trace on err.
WrapAlwaysTraces(err, message, stack, es, as) ==
    IF err = NilErr THEN Outcome(NilErr, es, as)
    ELSE trace(err, message, 2, Push(WrapFrame, stack), es, as)

\* A Wrap that does not look for nil.
WrapNoNilCheck(err, message, stack, es, as) ==
    IF IsError(err) THEN Outcome(err, es, as)
    ELSE trace(err, message, 2, Push(WrapFrame, stack), es, as)

\* Wrap(err, message)
Wrap(err, message, stack, es, as) ==
    IF err = NilErr THEN Outcome(NilErr, es, as)
    ELSE IF IsError(err) THEN Outcome(err, es, as)
    ELSE trace(err, message, 2, Push(WrapFrame, stack), es, as)

\* Wrapf(err, format, a...)
Wrapf(err, format, a, stack, es, as) ==
    Wrap(err, Sprintf(format, a), Push(WrapfFrame, stack), es, as)

\* (e *errorData) Unwrap(), and the same method of the client's type.
UnwrapMethod(e, es) == IF e.kind = "data" THEN es[e.addr].err ELSE e.inner

\* An Unwrap that hands a traced error back as it is.
UnwrapKeepsTraced(err, es) == err

\* Unwrap(err)
Unwrap(err, es) ==
    IF err = NilErr THEN NilErr
    ELSE IF ~IsError(err) THEN err
    ELSE UnwrapMethod(err, es)

\* A []Frame value: the backing array it points into (0: none of this heap)
\* and its elements when it was returned.
Slice(arr, elems) == [kind |-> "slice", arr |-> arr, elems |-> elems]

\* (e *errorData) StackTrace(): e.frames itself, not a copy.
StackTraceMethod(e, es, as) ==
    IF e.kind = "data"
    THEN Slice(es[e.addr].frames, FramesOf(es[e.addr], as))
    ELSE Slice(0, e.frames)

\* A StackTrace whose type assertion never succeeds.
StackTraceAlwaysNil(err, es, as) == Slice(0, <<>>)

\* StackTrace(err)
StackTrace(err, es, as) ==
    IF ~IsError(err) THEN Slice(0, <<>>)
    ELSE StackTraceMethod(err, es, as)

\* (f Frame) String()
FrameString(f) ==
    Sprintf(<<"%", "s", ":", "%", "d", " ", "%", "s", "(", ")">>,
            <<S(f.Path), I(f.Line), S(f.Func)>>)

\* A loop that ends every frame's line with a line break.
RECURSIVE writeFramesTrailingBreak(_, _, _, _)
writeFramesTrailingBreak(frames, i, isFirstFrame, builder) ==
    IF i > Len(frames) THEN builder
    ELSE writeFramesTrailingBreak(frames, i + 1, FALSE,
                                  builder \o <<"\t">> \o FrameString(frames[i]) \o <<"\n">>)

\* The range loop of (e *errorData) Error() from frame i on.
RECURSIVE writeFrames(_, _, _, _)
writeFrames(frames, i, isFirstFrame, builder) ==
    IF i > Len(frames) THEN builder
    ELSE writeFrames(frames, i + 1, FALSE,
                     builder \o (IF ~isFirstFrame THEN <<"\n">> ELSE <<>>)
                             \o <<"\t">> \o FrameString(frames[i]))

\* What a call of err.Error() yields: a text, or a panic (a method call on a
\* nil interface value).
Text(t) == [panic |-> FALSE, text |-> t]
Panic == [panic |-> TRUE, text |-> <<>>]

\* err.Error(), by dynamic type; for *errorData it is (e *errorData) Error().
RECURSIVE ErrorMethod(_, _, _)
ErrorMethod(err, es, as) ==
    IF err = NilErr THEN Panic
    ELSE IF err.kind # "data" THEN Text(err.text)
    ELSE LET e == es[err.addr]
             inner == ErrorMethod(e.err, es, as)
             head == IF e.message # <<>> THEN e.message \o <<"\n">> ELSE <<>>
         IN IF inner.panic THEN Panic
            ELSE Text(writeFrames(StackTraceMethod(err, es, as).elems, 1, TRUE,
                                  head \o inner.text \o <<"\n">>))

(***************************************************************************)
(* The client                                                              *)
(***************************************************************************)
\* Error values a client can pass: nil, its own errors, and whatever the
\* package has returned to it (the errorData values, and what Unwrap yields).
Known ==
    {NilErr, Plain(<<"x">>), Foreign}
        \cup {Ref(a) : a \in 1..Len(errs)}
        \cup {Unwrap(Ref(a), errs) : a \in 1..Len(errs)}

Notes == {<<>>, <<"c">>}

\* Literal messages for New; formats and operands for Errorf, Newf and Wrapf.
Messages == {<<"x">>, <<"%">>}
Formats == {<<"%", "s">>}
Operands == {<<S(<<"x">>)>>}
NoteOperands == {<<S(<<"c">>)>>}

\* The client is between calls.
Idle == [op |-> "none"]

Init ==
    /\ errs = <<>>
    /\ arrays = <<>>
    /\ born = <<>>
    /\ last = Idle

\* The call just made: its arguments, the stack it was made from, its result
\* and the heaps it started from.
Call(op, err, message, args, stack, res) ==
    [op |-> op, err |-> err, message |-> message, args |-> args, stack |-> stack,
     res |-> res, pre |-> [errs |-> errs, arrays |-> arrays]]

\* A call that may allocate: the heaps become the outcome's.  born keeps the
\* frames each errorData had when it was made.
Returns(op, err, message, args, stack, out) ==
    /\ last = Idle
    /\ Len(out.errs) <= MaxErrs
    /\ errs' = out.errs
    /\ arrays' = out.arrays
    /\ born' = IF Len(out.errs) > Len(errs)
               THEN Append(born, FramesOf(out.errs[Len(out.errs)], out.arrays))
               ELSE born
    /\ last' = Call(op, err, message, args, stack, out.res)

CallErrorf(message, args, stack) ==
    Returns("Errorf", NilErr, message, args, stack,
            Errorf(message, args, stack, errs, arrays))

CallNew(message, stack) ==
    Returns("New", NilErr, message, <<>>, stack, New(message, stack, errs, arrays))

CallNewf(format, a, stack) ==
    Returns("Newf", NilErr, format, a, stack, Newf(format, a, stack, errs, arrays))

CallWrap(err, message, stack) ==
    Returns("Wrap", err, message, <<>>, stack, Wrap(err, message, stack, errs, arrays))

CallWrapf(err, format, a, stack) ==
    Returns("Wrapf", err, format, a, stack, Wrapf(err, format, a, stack, errs, arrays))

\* The client passes a slice it has already: in Next the one StackTrace(err)
\* returns for err, which is the nil slice when err has no trace.
CallCustomError(err, frames) ==
    Returns("CustomError", err, <<>>, <<>>, <<>>,
            CustomError(err, frames, errs, arrays))

\* The client makes a slice of frames and passes it.
CallCustomErrorFresh(err, elems) ==
    LET as == Append(arrays, elems)
    IN Returns("CustomError", err, <<>>, <<>>, <<>>,
               CustomError(err, Len(as), errs, as))

CallUnwrap(err) ==
    /\ last = Idle
    /\ last' = Call("Unwrap", err, <<>>, <<>>, <<>>, Unwrap(err, errs))
    /\ UNCHANGED <<errs, arrays, born>>

CallStackTrace(err) ==
    /\ last = Idle
    /\ last' = Call("StackTrace", err, <<>>, <<>>, <<>>, StackTrace(err, errs, arrays))
    /\ UNCHANGED <<errs, arrays, born>>

\* err.Error() on a value the package returned.
CallError(err) ==
    /\ last = Idle
    /\ err.kind = "data"
    /\ last' = Call("Error", err, <<>>, <<>>, <<>>, ErrorMethod(err, errs, arrays))
    /\ UNCHANGED <<errs, arrays, born>>

\* The client assigns to the first element of a slice it has: the one it
\* passed to CustomError, or the one StackTrace(err) returns.
ClientWrites(err) ==
    LET arr == StackTrace(err, errs, arrays).arr
    IN /\ last = Idle
       /\ arr # 0
       /\ Len(arrays[arr]) > 0
       /\ arrays[arr][1] # FX
       /\ arrays' = [arrays EXCEPT ![arr][1] = FX]
       /\ last' = Call("write", err, <<>>, <<>>, <<>>, Slice(arr, arrays'[arr]))
       /\ UNCHANGED <<errs, born>>

\* The client has used the result of its call and goes on.
ClientProceeds ==
    /\ last # Idle
    /\ last' = Idle
    /\ UNCHANGED <<errs, arrays, born>>

Next ==
    \/ \E m \in Formats, a \in Operands, st \in Stacks : CallErrorf(m, a, st)
    \/ \E m \in Messages, st \in Stacks : CallNew(m, st)
    \/ \E m \in Formats, a \in Operands, st \in Stacks : CallNewf(m, a, st)
    \/ \E e \in Known, m \in Notes, st \in Stacks : CallWrap(e, m, st)
    \/ \E e \in Known, m \in Formats, a \in NoteOperands, st \in Stacks : CallWrapf(e, m, a, st)
    \/ \E e \in Known \ {Foreign} : CallCustomError(e, StackTrace(e, errs, arrays).arr)
    \/ \E e \in Known : CallCustomErrorFresh(e, <<F1, F2>>)
    \/ \E e \in Known : CallUnwrap(e)
    \/ \E e \in Known : CallStackTrace(e)
    \/ \E e \in Known : CallError(e)
    \/ \E e \in Known : ClientWrites(e)
    \/ ClientProceeds

Spec == Init /\ [][Next]_vars

(***************************************************************************)
(* Properties                                                              *)
(***************************************************************************)
Capturing == {"Errorf", "New", "Newf", "Wrap", "Wrapf"}

\* The last call allocated an errorData, which is its result.
Allocated ==
    /\ Len(errs) = Len(last.pre.errs) + 1
    /\ last.res = Ref(Len(errs))

\* The last call left both heaps as they were.
HeapsUntouched == errs = last.pre.errs /\ arrays = last.pre.arrays

\* The frames of the errorData the last call returned.
ResultFrames == FramesOf(errs[last.res.addr], arrays)

\* The last call returned a new errorData whose frames are `frames`, in a
\* slice no earlier errorData holds.
FreshTrace(frames) ==
    /\ Allocated
    /\ ResultFrames = frames
    /\ errs[last.res.addr].frames = Len(last.pre.arrays) + 1
    /\ Len(arrays) = Len(last.pre.arrays) + 1

\* The stack above Wrap when the last call was Wrap or Wrapf.
StackAboveWrap ==
    IF last.op = "Wrapf" THEN Push(WrapfFrame, last.stack) ELSE last.stack

\* C1: Wrap and Wrapf of a value that carries a trace return that very value
\* and leave its frames, its original error and its message as they were; no
\* errorData and no frames slice is allocated.
WrapIsIdempotent ==
    (last.op \in {"Wrap", "Wrapf"} /\ last.err.kind = "data")
        => /\ last.res = last.err
           /\ HeapsUntouched

\* A second Wrap, with another note, of a value Wrap made from an untraced error.
WrapIsIdempotentWitness ==
    /\ last.op = "Wrap"
    /\ last.err.kind = "data"
    /\ ~IsError(errs[last.err.addr].err)
    /\ errs[last.err.addr].message = <<"c">>
    /\ last.message = <<>>
    /\ FramesOf(errs[last.err.addr], arrays) = <<F1, F2>>

\* C2: Wrap of a non-nil error without a trace returns a new errorData whose
\* original error is that error, whose message is the note and whose frames
\* are the stack Wrap was called from, innermost first (so not empty when
\* that stack is not).
WrapCapturesCallerStack ==
    (last.op = "Wrap" /\ last.err # NilErr /\ ~IsError(last.err))
        => /\ FreshTrace(last.stack)
           /\ Unwrap(last.res, errs) = last.err
           /\ errs[last.res.addr].message = last.message
           /\ (last.stack # <<>> => ResultFrames # <<>>)

WrapCapturesCallerStackWitness ==
    /\ last.op = "Wrap"
    /\ last.err = Plain(<<"x">>)
    /\ last.message = <<"c">>
    /\ last.stack = <<F1, F2>>
    /\ ResultFrames = <<F1, F2>>

\* C3: whichever entry point captured the trace, called from a stack that
\* resolves, the first frame is the entry point's immediate caller and no
\* frame is one of the package.
FirstFrameIsCaller ==
    (last.op \in Capturing /\ Allocated /\ last.stack # <<>>)
        => /\ ResultFrames # <<>>
           /\ ResultFrames[1] = last.stack[1]
           /\ \A i \in 1..Len(ResultFrames) : ResultFrames[i].Path # LibPath

\* The text the specification gives for a frame and for a traced error.
FrameLine(f) == f.Path \o <<":">> \o Itoa(f.Line) \o <<" ">> \o f.Func \o <<"(", ")">>

RECURSIVE FrameLines(_, _)
FrameLines(frames, i) ==
    IF i > Len(frames) THEN <<>>
    ELSE <<"\t">> \o FrameLine(frames[i])
         \o (IF i < Len(frames) THEN <<"\n">> ELSE <<>>)
         \o FrameLines(frames, i + 1)

Rendered(m, o, frames) ==
    (IF m = <<>> THEN <<>> ELSE m \o <<"\n">>) \o o \o <<"\n">> \o FrameLines(frames, 1)

\* C4: Error() of a traced error is its message and a line break when the
\* message is not empty, the original error's text and a line break, then
\* per frame a tab and "path:line function()", with a line break between
\* frames and none after the last.
ErrorRendersMessageTextFrames ==
    (last.op = "Error" /\ ~last.res.panic)
        => last.res.text
               = Rendered(errs[last.err.addr].message,
                          ErrorMethod(errs[last.err.addr].err, errs, arrays).text,
                          FramesOf(errs[last.err.addr], arrays))

\* message "c", original text "x", frames f at /a:10 and g at /a:20.
ErrorRendersWitness ==
    /\ last.op = "Error"
    /\ last.res = Text(<<"c", "\n", "x", "\n",
                         "\t", "/", "a", ":", "1", "0", " ", "f", "(", ")", "\n",
                         "\t", "/", "a", ":", "2", "0", " ", "g", "(", ")">>)

\* C5: New(x) yields a traced error whose original error's text is x and
\* whose message is empty, and so does Errorf("%s", x).
NewKeepsLiteralText ==
    /\ last.op = "New"
           => /\ Unwrap(last.res, errs).text = last.message
              /\ errs[last.res.addr].message = <<>>
    /\ (last.op = "Errorf" /\ last.message = <<"%", "s">>)
           => /\ Unwrap(last.res, errs).text = last.args[1].v
              /\ errs[last.res.addr].message = <<>>

\* A value the package made before the last call, whose original error is
\* the last call's argument.
UnwrappedFrom(a) ==
    /\ a \in 1..Len(last.pre.errs)
    /\ last.err = Unwrap(Ref(a), last.pre.errs)

\* C6, as stated, for a value made from an original that is itself a traced
\* error of the package: Wrap of what Unwrap yields for it returns a new
\* traced error with a trace of the new call site.
RewrapCapturesAfresh ==
    (/\ last.op \in {"Wrap", "Wrapf"}
     /\ last.err.kind = "data"
     /\ \E a \in 1..Len(last.pre.errs) : UnwrappedFrom(a))
        => FreshTrace(StackAboveWrap)

\* C6, amended: Errorf, New, Newf, Wrap and Wrapf store an original error
\* that is not nil and has no trace, and CustomError stores the error it is
\* given; Wrap of a stored original that is not nil and has no trace returns
\* a new traced error with a trace of the new call site.
RewrapOfUntracedOriginal ==
    /\ (last.op \in Capturing /\ Allocated)
           => /\ Unwrap(last.res, errs) # NilErr
              /\ ~IsError(Unwrap(last.res, errs))
    /\ last.op = "CustomError" => Unwrap(last.res, errs) = last.err
    /\ (/\ last.op \in {"Wrap", "Wrapf"}
        /\ last.err # NilErr
        /\ ~IsError(last.err)
        /\ \E a \in 1..Len(last.pre.errs) : UnwrappedFrom(a))
           => FreshTrace(StackAboveWrap)

\* Wrap of the original of a value whose own trace is another one.
RewrapWitness ==
    /\ last.op = "Wrap"
    /\ last.err # NilErr
    /\ ~IsError(last.err)
    /\ UnwrappedFrom(1)
    /\ FramesOf(last.pre.errs[1], last.pre.arrays) = <<>>
    /\ ResultFrames = <<F1, F2>>

\* C7: Wrap, Wrapf and Unwrap of nil return nil, and allocate nothing.
NilInNilOut ==
    (last.op \in {"Wrap", "Wrapf", "Unwrap"} /\ last.err = NilErr)
        => /\ last.res = NilErr
           /\ HeapsUntouched

NilInNilOutWitness ==
    /\ last.op = "Wrapf"
    /\ last.err = NilErr
    /\ last.stack = <<F1, F2>>
    /\ Len(errs) = 1

\* C8, as stated: StackTrace returns the stored frames of a value the
\* package made and no frames for any other error value.
StackTraceOnlyOfOwnValues ==
    last.op = "StackTrace"
        => last.res.elems
               = IF last.err.kind = "data"
                 THEN FramesOf(errs[last.err.addr], arrays)
                 ELSE <<>>

\* C8, amended: StackTrace returns no frames for nil and for an error that
\* lacks StackTrace or Unwrap, the stored slice of a value the package made,
\* and for any other value that has the interface's methods what its own
\* StackTrace method returns.
StackTraceOfErrorInterface ==
    last.op = "StackTrace"
        => IF ~IsError(last.err) THEN last.res = Slice(0, <<>>)
           ELSE IF last.err.kind = "data"
           THEN last.res = Slice(errs[last.err.addr].frames,
                                 FramesOf(errs[last.err.addr], arrays))
           ELSE last.res.elems = last.err.frames

StackTraceWitness ==
    /\ last.op = "StackTrace"
    /\ last.err = Foreign
    /\ last.res.elems = <<F2>>

\* C9: every errorData has the frames it was made with, and no two hold the
\* same slice of frames (a slice that has elements to write).
FramesFixedAndOwned ==
    /\ \A a \in 1..Len(errs) : FramesOf(errs[a], arrays) = born[a]
    /\ \A a, b \in 1..Len(errs) :
           (a # b /\ FramesOf(errs[a], arrays) # <<>>)
               => errs[a].frames # errs[b].frames

\* C10: Error() of a value the package returned yields a text.
ErrorNeverPanics == last.op = "Error" => ~last.res.panic

====
